---- MODULE Spec2Model ----
(***************************************************************************)
(* Model of pydrus.model.Model (src/pydrus/model.py): the configuration    *)
(* container, the SELECTOR.IN and PROFILE.DAT writers and the readers of   *)
(* the engine's PROFILE.OUT and T_LEVEL.OUT files.                         *)
(*                                                                         *)
(* Text is modelled as TLA+ strings, a file as the single string that      *)
(* file.writelines() produces.  Floating point settings never change in    *)
(* the model and are held in their printed form (str(0.001) = "0.001").    *)
(***************************************************************************)
EXTENDS Integers, Sequences, FiniteSets, TLC

VARIABLES basic_information, time_information, water_flow,
          material, profile, observations, drain, files, last

vars == <<basic_information, time_information, water_flow,
          material, profile, observations, drain, files, last>>

config == <<basic_information, time_information, water_flow,
            material, profile, observations, drain>>

(***************************************************************************)
(* Bounds of the model.                                                    *)
(***************************************************************************)
MaxRows == 2        \* rows the material table may grow to
MaxNodes == 2       \* rows of a profile table
MaxObs == 2         \* observation points
MaxMPL == 4         \* largest print-time count tried
MaxExp == 2         \* largest exponent tried for TPrint(1) and TPrint(MPL)
MaxPre == 2         \* preamble lines of an engine output file
MaxData == 2        \* data rows of an engine output file

(***************************************************************************)
(* Program constants.                                                      *)
(***************************************************************************)
BannerWidth == 72
ScanHint == 1000
SkipFooter == 2

None == "None"      \* str(None)

(***************************************************************************)
(* Python string primitives.                                               *)
(***************************************************************************)
RECURSIVE Rep(_, _)
Rep(c, n) == IF n <= 0 THEN "" ELSE c \o Rep(c, n - 1)

RECURSIVE Join(_, _)
Join(sep, seq) ==
    IF Len(seq) = 0 THEN ""
    ELSE IF Len(seq) = 1 THEN seq[1]
    ELSE seq[1] \o sep \o Join(sep, Tail(seq))

Digit(d) == SubSeq("0123456789", d + 1, d + 1)

RECURSIVE NatToStr(_)
NatToStr(n) == IF n < 10 THEN Digit(n) ELSE NatToStr(n \div 10) \o Digit(n % 10)

IntToStr(n) == IF n < 0 THEN "-" \o NatToStr(-n) ELSE NatToStr(n)

\* "{:{fill}{align}{width}}".format(s, fill=fill, align="<", width=width)
LJust(s, fill, width) ==
    IF Len(s) >= width THEN s ELSE s \o Rep(fill, width - Len(s))

\* needle in hay
Contains(hay, needle) ==
    \E i \in 1..(Len(hay) - Len(needle) + 1) :
        SubSeq(hay, i, i + Len(needle) - 1) = needle

\* The physical lines of a text: the pieces between line terminators.  A
\* text that ends with a terminator has no further (empty) line after it.
Breaks(s) == {i \in 1..Len(s) : SubSeq(s, i, i) = "\n"}

RECURSIVE SortedSeq(_)
SortedSeq(S) ==
    IF S = {} THEN <<>>
    ELSE LET m == CHOOSE x \in S : \A y \in S : x <= y
         IN <<m>> \o SortedSeq(S \ {m})

RECURSIVE Pieces(_, _, _)
Pieces(s, from, ends) ==
    IF Len(ends) = 0
    THEN IF from > Len(s) THEN <<>> ELSE <<SubSeq(s, from, Len(s))>>
    ELSE <<SubSeq(s, from, ends[1] - 1)>> \o Pieces(s, ends[1] + 1, Tail(ends))

PhysLines(s) == Pieces(s, 1, SortedSeq(Breaks(s)))

\* line.split(): the maximal runs of non-blank characters
TokStarts(l) ==
    {i \in 1..Len(l) : /\ SubSeq(l, i, i) # " "
                       /\ (i = 1 \/ SubSeq(l, i - 1, i - 1) = " ")}

TokAt(l, b) ==
    LET ends == {j \in b..Len(l) : SubSeq(l, j, j) = " "}
        e == IF ends = {} THEN Len(l) + 1
             ELSE CHOOSE j \in ends : \A k \in ends : j <= k
    IN SubSeq(l, b, e - 1)

Tokens(l) ==
    LET st == SortedSeq(TokStarts(l))
    IN [i \in 1..Len(st) |-> TokAt(l, st[i])]

\* the run of blanks between the first and the second token of a line
Gap(l) ==
    LET st == SortedSeq(TokStarts(l))
    IN IF Len(st) < 2 THEN ""
       ELSE SubSeq(l, st[1] + Len(TokAt(l, st[1])), st[2] - 1)


(***************************************************************************)
(* pandas.DataFrame as the program uses it: named columns, row labels and  *)
(* rows of cells.  Cells are held in their printed form.                   *)
(***************************************************************************)
Frame(cols, idx, rows) ==
    [none |-> FALSE, columns |-> cols, index |-> idx, data |-> rows]

\* an attribute that holds None where a DataFrame is expected
NoneFrame == [none |-> TRUE, columns |-> <<>>, index |-> <<>>, data |-> <<>>]

\* DataFrame.append(other): the rows of other after the rows of df
FrameAppend(df, other) ==
    Frame(df.columns, df.index \o other.index, df.data \o other.data)

RJust(s, w) == Rep(" ", w - Len(s)) \o s

Max(S) == CHOOSE x \in S : \A y \in S : y <= x

ColWidth(df, j) ==
    Max({Len(df.columns[j])} \cup {Len(df.data[r][j]) : r \in 1..Len(df.data)})

IndexWidth(df) == Max({0} \cup {Len(df.index[r]) : r \in 1..Len(df.index)})

\* DataFrame.to_string(index=withIndex), as the list of its lines: one
\* header line with the column names, then one line per row
ToStringLines(df, withIndex) ==
    IF Len(df.data) = 0
    THEN << "Empty DataFrame",
            "Columns: [" \o Join(", ", df.columns) \o "]",
            "Index: []" >>
    ELSE LET n == Len(df.columns)
             head == [j \in 1..n |-> RJust(df.columns[j], ColWidth(df, j))]
             row(r) == [j \in 1..n |-> RJust(df.data[r][j], ColWidth(df, j))]
             lead(s) == IF withIndex
                        THEN <<LJust(s, " ", IndexWidth(df))>> ELSE <<>>
         IN <<Join("  ", lead("") \o head)>> \o
            [r \in 1..Len(df.data) |-> Join("  ", lead(df.index[r]) \o row(r))]

FrameToString(df, withIndex) == Join("\n", ToStringLines(df, withIndex))

(***************************************************************************)
(* Tables a caller hands to add_material and add_profile.                  *)
(***************************************************************************)
MatCols == <<"thr", "ths", "Alfa", "n", "Ks", "l">>

MatRow(i) == IF i = 1 THEN <<"0.08", "0.3421", "0.03", "5", "1", "-0.5">>
             ELSE <<"0.1", "0.4", "0.05", "2", "10", "0.5">>

MatTable(n) ==
    Frame(MatCols, [i \in 1..n |-> IntToStr(i)], [i \in 1..n |-> MatRow(i)])

ProfCols == <<"x", "h", "Mat", "Lay">>

ProfRow(i) == <<IntToStr(1 - i), "-100", "1", "1">>

ProfTable(n) ==
    Frame(ProfCols, [i \in 1..n |-> IntToStr(i)], [i \in 1..n |-> ProfRow(i)])

(***************************************************************************)
(* Model.__init__                                                          *)
(***************************************************************************)
BoolKeys == {"lWat", "lChem", "lTemp", "lSink", "lRoot", "lShort", "lWDep",
             "lScreen", "AtmInf", "lEquil", "lInverse", "lSnow", "lHP1",
             "lMeteo", "lVapor", "lActRSU", "lFlux",
             "lPrint", "lEnter",
             "TopInf", "WLayer", "lInitW", "BotInf", "qGWLF", "FreeD",
             "SeepF", "qDrain"}

IntKeys == {"NMat", "NLay", "CosAlfa",
            "ItMin", "ItMax", "MPL", "tInit", "tMax", "nPrintSteps",
            "tPrintInterval", "TPrint(1)", "TPrint(2)", "TPrint(MPL)",
            "MaxIt", "KodTop", "KodBot", "hSeep", "rTop", "rBot", "rRoot",
            "WGL0L", "Aqh", "Bqh", "hb", "iModel", "iHyst", "iKappa"}

InitBasic ==
    ("iVer" :> "0.1") @@ ("Hed" :> "Heading") @@ ("LUnit" :> "m") @@
    ("TUnit" :> "days") @@ ("MUnit" :> "mmol") @@ ("lWat" :> TRUE) @@
    ("lChem" :> FALSE) @@ ("lTemp" :> FALSE) @@ ("lSink" :> FALSE) @@
    ("lRoot" :> FALSE) @@ ("lShort" :> FALSE) @@ ("lWDep" :> FALSE) @@
    ("lScreen" :> TRUE) @@ ("AtmInf" :> FALSE) @@ ("lEquil" :> TRUE) @@
    ("lInverse" :> FALSE) @@ ("lSnow" :> FALSE) @@ ("lHP1" :> FALSE) @@
    ("lMeteo" :> FALSE) @@ ("lVapor" :> FALSE) @@ ("lActRSU" :> FALSE) @@
    ("lFlux" :> FALSE) @@ ("NMat" :> 0) @@ ("NLay" :> 1) @@ ("CosAlfa" :> 1)

InitTime ==
    ("dt" :> "0.001") @@ ("dtMin" :> "0.0001") @@ ("dtMax" :> "0.5") @@
    ("dMul" :> "1.3") @@ ("dMul2" :> "0.7") @@ ("ItMin" :> 3) @@
    ("ItMax" :> 7) @@ ("MPL" :> 4) @@ ("tInit" :> 0) @@ ("tMax" :> 1) @@
    ("lPrint" :> FALSE) @@ ("nPrintSteps" :> 1) @@ ("tPrintInterval" :> 1) @@
    ("lEnter" :> FALSE) @@ ("TPrint(1)" :> 0) @@ ("TPrint(2)" :> 1) @@
    ("TPrint(MPL)" :> 1)

InitWater ==
    ("MaxIt" :> 20) @@ ("TolTh" :> "0.0001") @@ ("TolH" :> "0.1") @@
    ("TopInf" :> FALSE) @@ ("WLayer" :> FALSE) @@ ("KodTop" :> -1) @@
    ("lInitW" :> TRUE) @@ ("BotInf" :> FALSE) @@ ("qGWLF" :> FALSE) @@
    ("FreeD" :> FALSE) @@ ("SeepF" :> FALSE) @@ ("KodBot" :> 1) @@
    ("qDrain" :> FALSE) @@ ("hSeep" :> 0) @@ ("rTop" :> 0) @@
    ("rBot" :> 0) @@ ("rRoot" :> 0) @@ ("WGL0L" :> 0) @@ ("Aqh" :> 0) @@
    ("Bqh" :> 0) @@ ("ha" :> "0.001") @@ ("hb" :> 1000) @@
    ("iModel" :> 0) @@ ("iHyst" :> 0) @@ ("iKappa" :> -1)

\* the record of the last call: which method, how it ended, the file it
\* named, what a reader returned, and whether the call before it was the
\* same method ending normally
Call(op, outcome, fname, start, table) ==
    [op |-> op, outcome |-> outcome, fname |-> fname,
     start |-> start, table |-> table,
     again |-> last.op = op /\ last.outcome = "ok"]

NoTable == [columns |-> <<>>, index_name |-> "", index |-> <<>>, data |-> <<>>]

Done(op, outcome, fname) == Call(op, outcome, fname, -1, NoTable)

Init ==
    /\ basic_information = InitBasic
    /\ time_information = InitTime
    /\ water_flow = InitWater
    /\ profile = NoneFrame
    /\ material = NoneFrame
    /\ observations = <<>>
    /\ drain = FALSE
    /\ files = <<>>
    /\ last = [op |-> "init", outcome |-> "ok", fname |-> "", start |-> -1,
               table |-> NoTable, again |-> FALSE]


(***************************************************************************)
(* Model.add_profile, Model.add_material and the attributes a caller sets. *)
(***************************************************************************)
AddProfile(p) ==
    /\ profile' = p
    /\ last' = Done("add_profile", "ok", "")
    /\ UNCHANGED <<basic_information, time_information, water_flow,
                   material, observations, drain, files>>

AddMaterial(m) ==
    /\ Len(material.data) + Len(m.data) <= MaxRows
    /\ material' = IF material.none THEN m ELSE FrameAppend(material, m)
    /\ basic_information' =
           [basic_information EXCEPT !["NMat"] = basic_information["NMat"] + 1]
    /\ last' = Done("add_material", "ok", "")
    /\ UNCHANGED <<time_information, water_flow, profile, observations,
                   drain, files>>

\* the nodes a caller observes
ObsNodes == {1, 2}

\* ml.observations.append(node)
AddObservation(node) ==
    /\ Len(observations) < MaxObs
    /\ observations' = Append(observations, node)
    /\ last' = Done("observations", "ok", "")
    /\ UNCHANGED <<basic_information, time_information, water_flow,
                   material, profile, drain, files>>

\* the options whose blocks write_selector cannot render
Unsupported ==
    {"lRoot", "lTemp", "lChem", "lSink", "AtmInf", "lInverse", "lMeteo"}

\* ml.basic_information[flag] = val
SetFlag(flag, val) ==
    /\ basic_information[flag] # val
    /\ basic_information' = [basic_information EXCEPT ![flag] = val]
    /\ last' = Done("basic_information", "ok", "")
    /\ UNCHANGED <<time_information, water_flow, material, profile,
                   observations, drain, files>>

\* ml.drain = val
SetDrain(val) ==
    /\ drain # val
    /\ drain' = val
    /\ last' = Done("drain", "ok", "")
    /\ UNCHANGED <<basic_information, time_information, water_flow,
                   material, profile, observations, files>>

(***************************************************************************)
(* Model.write_selector                                                    *)
(***************************************************************************)
\* str(val) of a setting that is not a boolean
PyStr(d, var) == IF var \in IntKeys THEN IntToStr(d[var]) ELSE d[var]

\* "t" for True, "f" for False, str(val) otherwise
FormatVal(d, var) ==
    IF var \in BoolKeys THEN (IF d[var] THEN "t" ELSE "f") ELSE PyStr(d, var)

Banner(title) == "***" \o LJust(title, "*", BannerWidth) \o "\n"

\* the delimiters of the scalar groups
NameSep == "  "
FlagSepAsNames == "  "
FlagSep == "     "
CountSep == "   "
TimeNameSep == " "
TimeSep == " "

\* one scalar group: the line of names, then the line of values; names
\* ends with the line terminator, as in the source
Group(d, names, nameSep, valSep) ==
    << Join(nameSep, names),
       Join(valSep, [i \in 1..Len(names) |->
                        IF i = Len(names) THEN "\n" ELSE FormatVal(d, names[i])]) >>

RECURSIVE Groups(_, _, _, _)
Groups(d, vars2, nameSep, valSep) ==
    IF Len(vars2) = 0 THEN <<>>
    ELSE Group(d, vars2[1], nameSep, valSep)
         \o Groups(d, Tail(vars2), nameSep, valSep)

BasicGroups ==
    << <<"lWat", "lChem", "lTemp", "lSink", "lRoot", "lShort", "lWDep",
         "lScreen", "AtmInf", "lEquil", "lInverse", "\n">>,
       <<"lSnow", "lHP1", "lMeteo", "lVapor", "lActRSU", "lFlux", "\n">> >>

CountVars == <<"NMat", "NLay", "CosAlfa", "\n">>

IterVars == <<"MaxIt", "TolTh", "TolH">>

WaterGroups ==
    << <<"TopInf", "WLayer", "KodTop", "lInitW", "\n">>,
       <<"BotInf", "qGWLF", "FreeD", "SeepF", "KodBot", "qDrain", "hSeep",
         "\n">>,
       <<"rTop", "rBot", "rRoot", "\n">>,
       <<"ha", "hb", "\n">>,
       <<"iModel", "iHyst", "\n">> >>

TimeGroups ==
    << <<"dt", "dtMin", "dtMax", "dMul", "dMul2", "ItMin", "ItMax", "MPL",
         "\n">>,
       <<"tInit", "tMax", "\n">>,
       <<"lPrint", "nPrintSteps", "tPrintInterval", "lEnter", "\n">> >>

BlockA ==
    << "Pcp_File_Version=4\n",
       Banner(" BLOCK A: BASIC INFORMATION "),
       basic_information["Hed"] \o "\n",
       None \o "\n",
       "LUnit  TUnit  MUnit  (indicated units are obligatory "
           \o "for all input data)\n",
       basic_information["LUnit"] \o "\n",
       basic_information["TUnit"] \o "\n",
       basic_information["MUnit"] \o "\n" >>
    \o Groups(basic_information, BasicGroups, NameSep, FlagSep)
    \o << Join(NameSep, CountVars),
          Join(CountSep, [i \in 1..(Len(CountVars) - 1) |->
                             PyStr(basic_information, CountVars[i])]),
          "\n" >>

BlockB ==
    << Banner(" BLOCK B: WATER FLOW INFORMATION "),
       "MaxIt  TolTh  TolH   (maximum number of iterations and "
           \o "tolerances)\n",
       Join(CountSep, [i \in 1..Len(IterVars) |-> PyStr(water_flow, IterVars[i])]),
       "\n" >>
    \o Groups(water_flow, WaterGroups, NameSep, FlagSep)
    \o (IF water_flow["iHyst"] > 0
        THEN <<"iKappa\n" \o IntToStr(water_flow["iKappa"]) \o "\n">>
        ELSE <<>>)

MaterialBlock == <<FrameToString(material, FALSE), "\n">>

\* numpy.log10 on the powers of ten the model uses
RECURSIVE Log10(_)
Log10(v) == IF v <= 1 THEN 0 ELSE 1 + Log10(v \div 10)

\* numpy.logspace(start, stop, num, endpoint=False)
LogSpaceOpen(start, stop, num) ==
    LET div == IF num > 0 THEN num ELSE 1
    IN [i \in 1..num |-> [num |-> start * div + (i - 1) * (stop - start),
                          den |-> div]]

\* numpy.logspace(start, stop, num): the powers 10**y of num exponents y
\* evenly spaced from start to stop.  An exponent is the fraction
\* num/den; with one sample only start is produced.
LogSpace(start, stop, num) ==
    LET div == IF num > 1 THEN num - 1 ELSE 1
    IN [i \in 1..num |-> [num |-> start * div + (i - 1) * (stop - start),
                          den |-> div]]

\* str(10.0 ** k) for a whole exponent k; a power whose exponent is not
\* whole has no finite decimal form and is written as the power itself
TimeStr(t) ==
    IF t.num % t.den = 0
    THEN LET k == t.num \div t.den
         IN IF k >= 0 THEN "1" \o Rep("0", k) \o ".0"
            ELSE "0." \o Rep("0", (-k) - 1) \o "1"
    ELSE "10**(" \o IntToStr(t.num) \o "/" \o IntToStr(t.den) \o ")"

PrintTimes ==
    LogSpace(time_information["TPrint(1)"],
             Log10(time_information["TPrint(MPL)"]),
             time_information["MPL"])

BlockC ==
    << Banner(" BLOCK C: TIME INFORMATION ") >>
    \o Groups(time_information, TimeGroups, TimeNameSep, TimeSep)
    \o << "TPrint(1),TPrint(2),...,TPrint(MPL)\n",
          Join(" ", [i \in 1..Len(PrintTimes) |-> TimeStr(PrintTimes[i])]),
          "\n" >>

EndBanner == Banner(" END OF INPUT FILE 'SELECTOR.IN' ")

SelectorLines ==
    BlockA \o BlockB \o MaterialBlock \o BlockC \o <<EndBanner>>

\* how write_selector ends: the checks in the order the code makes them
SelectorOutcome ==
    IF drain THEN "NotImplementedError"
    ELSE IF material.none THEN "AttributeError"
    ELSE IF \E f \in Unsupported : basic_information[f]
         THEN "NotImplementedError"
    ELSE "ok"

\* open(fname, "a") in place of open(fname, "w")
WriteLinesAppend(fs, fname, lines) ==
    [n \in (DOMAIN fs) \cup {fname} |->
        IF n = fname
        THEN (IF n \in DOMAIN fs THEN fs[n] ELSE "") \o Join("", lines)
        ELSE fs[n]]

\* open(fname, "w") and file.writelines(lines)
WriteLines(fs, fname, lines) ==
    [n \in (DOMAIN fs) \cup {fname} |->
        IF n = fname THEN Join("", lines) ELSE fs[n]]

WriteSelector ==
    /\ files' = IF SelectorOutcome = "ok"
                THEN WriteLines(files, "SELECTOR.IN", SelectorLines)
                ELSE files
    /\ last' = Done("write_selector", SelectorOutcome, "SELECTOR.IN")
    /\ UNCHANGED config

(***************************************************************************)
(* Model.write_profile and Model.write_files                               *)
(***************************************************************************)
\* the row-count summary ended with a line terminator
ProfileLinesSummaryEnded ==
    << "Pcp_File_Version=4\n",
       "0\n",
       IntToStr(Len(profile.index)) \o " " \o IntToStr(0) \o " "
           \o IntToStr(0) \o " \n",
       FrameToString(profile, TRUE),
       "\n",
       IntToStr(Len(observations)) \o "\n",
       Join("", [i \in 1..Len(observations) |->
                    "   " \o IntToStr(observations[i])]) >>

ProfileLines ==
    << "Pcp_File_Version=4\n",
       "0\n",
       IntToStr(Len(profile.index)) \o " " \o IntToStr(0) \o " "
           \o IntToStr(0) \o " ",
       FrameToString(profile, TRUE),
       "\n",
       IntToStr(Len(observations)) \o "\n",
       Join("", [i \in 1..Len(observations) |->
                    "   " \o IntToStr(observations[i])]) >>

ProfileOutcome == IF profile.none THEN "AttributeError" ELSE "ok"

WriteProfile ==
    /\ files' = IF ProfileOutcome = "ok"
                THEN WriteLines(files, "PROFILE.DAT", ProfileLines)
                ELSE files
    /\ last' = Done("write_profile", ProfileOutcome, "PROFILE.DAT")
    /\ UNCHANGED config

WriteFiles ==
    /\ IF SelectorOutcome # "ok"
       THEN /\ files' = files
            /\ last' = Done("write_files", SelectorOutcome, "SELECTOR.IN")
       ELSE LET fs == WriteLines(files, "SELECTOR.IN", SelectorLines)
            IN IF ProfileOutcome # "ok"
               THEN /\ files' = fs
                    /\ last' = Done("write_files", ProfileOutcome, "PROFILE.DAT")
               ELSE /\ files' = WriteLines(fs, "PROFILE.DAT", ProfileLines)
                    /\ last' = Done("write_files", "ok", "PROFILE.DAT")
    /\ UNCHANGED config

(***************************************************************************)
(* The material table and the writers on a model whose options are all     *)
(* supported.                                                              *)
(***************************************************************************)
Next ==
    \/ \E n \in 1..MaxRows : AddMaterial(MatTable(n))
    \/ AddProfile(ProfTable(1))
    \/ WriteSelector
    \/ WriteProfile
    \/ WriteFiles

Spec == Init /\ [][Next]_vars

(***************************************************************************)
(* The profile, the observations and the writers on a model that holds one *)
(* material.                                                               *)
(***************************************************************************)
InitProfile ==
    /\ basic_information = [InitBasic EXCEPT !["NMat"] = 1]
    /\ time_information = InitTime
    /\ water_flow = InitWater
    /\ profile = NoneFrame
    /\ material = MatTable(1)
    /\ observations = <<>>
    /\ drain = FALSE
    /\ files = <<>>
    /\ last = [op |-> "init", outcome |-> "ok", fname |-> "", start |-> -1,
               table |-> NoTable, again |-> FALSE]

NextProfile ==
    \/ \E n \in 0..MaxNodes : AddProfile(ProfTable(n))
    \/ \E node \in ObsNodes : AddObservation(node)
    \/ WriteSelector
    \/ WriteProfile
    \/ WriteFiles

SpecProfile == InitProfile /\ [][NextProfile]_vars

(***************************************************************************)
(* The writers on a model whose caller requests options: any of the        *)
(* unsupported flags and the drain.                                        *)
(***************************************************************************)
MaxFlags == 2       \* unsupported flags requested at the same time

Requested == {f \in Unsupported : basic_information[f]}

NextOptions ==
    \/ \E f \in Unsupported, val \in BOOLEAN :
           /\ val => Cardinality(Requested) < MaxFlags
           /\ SetFlag(f, val)
    \/ \E val \in BOOLEAN : SetDrain(val)
    \/ AddMaterial(MatTable(1))
    \/ AddProfile(ProfTable(1))
    \/ WriteSelector
    \/ WriteFiles

SpecOptions == Init /\ [][NextOptions]_vars

(***************************************************************************)
(* write_selector over the time-stepping settings: a model with one        *)
(* material whose caller has set MPL, TPrint(1), TPrint(MPL) and iHyst.    *)
(***************************************************************************)
RECURSIVE Pow10(_)
Pow10(k) == IF k = 0 THEN 1 ELSE 10 * Pow10(k - 1)

InitTimes ==
    /\ basic_information = [InitBasic EXCEPT !["NMat"] = 1]
    /\ \E mpl \in 0..MaxMPL, t1 \in 0..MaxExp, e \in 0..MaxExp :
           time_information = [InitTime EXCEPT !["MPL"] = mpl,
                                               !["TPrint(1)"] = t1,
                                               !["TPrint(MPL)"] = Pow10(e)]
    /\ \E h \in {0, 1} : water_flow = [InitWater EXCEPT !["iHyst"] = h]
    /\ profile = NoneFrame
    /\ material = MatTable(1)
    /\ observations = <<>>
    /\ drain = FALSE
    /\ files = <<>>
    /\ last = [op |-> "init", outcome |-> "ok", fname |-> "", start |-> -1,
               table |-> NoTable, again |-> FALSE]

NextTimes == WriteSelector

SpecTimes == InitTimes /\ [][NextTimes]_vars

(***************************************************************************)
(* Model.simulate: the engine leaves its output files in the workspace.    *)
(* An output file is a preamble, the table (a line of names, a line of     *)
(* units, the data rows) and the footer; every part may be missing.        *)
(***************************************************************************)
Stars == Rep("**********", 60)

ShortLine == "Program HYDRUS"

LongLine == "Welcome " \o Stars

RECURSIVE SeqsUpTo(_, _)
SeqsUpTo(S, n) ==
    IF n = 0 THEN {<<>>}
    ELSE SeqsUpTo(S, n - 1)
         \cup {Append(q, x) : q \in SeqsUpTo(S, n - 1), x \in S}

Preambles == SeqsUpTo({ShortLine, LongLine}, MaxPre)

DataLine(i) == IntToStr(i) \o " " \o IntToStr(i + 4)

Footer == <<"end", "end">>

\* the text of an output file: every line ends with the line terminator
OutText(pre, names, units, ndata, foot) ==
    LET lines == pre \o names \o units
                 \o [i \in 1..ndata |-> DataLine(i)] \o foot
    IN Join("", [i \in 1..Len(lines) |-> lines[i] \o "\n"])

Simulate ==
    \E pre \in Preambles, named \in BOOLEAN, unit \in BOOLEAN,
       ndata \in 0..MaxData, foot \in {<<>>, Footer} :
        /\ files' =
               [n \in (DOMAIN files) \cup {"PROFILE.OUT", "T_LEVEL.OUT"} |->
                   IF n = "PROFILE.OUT"
                   THEN OutText(pre,
                                IF named THEN <<"depth water">> ELSE <<>>,
                                IF unit THEN <<"cm cm3">> ELSE <<>>,
                                ndata, foot)
                   ELSE IF n = "T_LEVEL.OUT"
                   THEN OutText(pre,
                                IF named THEN <<"Time rTop">> ELSE <<>>,
                                IF unit THEN <<"[T] [L/T]">> ELSE <<>>,
                                ndata, foot)
                   ELSE files[n]]
        /\ last' = Done("simulate", "ok", "")
        /\ UNCHANGED config

(***************************************************************************)
(* Model.read_profile and Model.read_tlevel                                *)
(***************************************************************************)
\* file.readlines(hint): whole lines are read until the characters read,
\* line terminators included, exceed hint; P are the lines of the file
RECURSIVE ReadLines(_, _, _)
ReadLines(P, hint, length) ==
    IF Len(P) = 0 THEN <<>>
    ELSE IF Len(P[1]) + 1 > hint - length THEN <<P[1]>>
    ELSE <<P[1]>> \o ReadLines(Tail(P), hint, length + Len(P[1]) + 1)

\* for start, line in enumerate(lines): if marker in line: break
\* the value of start after the loop; -1 when the loop body never ran and
\* start is not bound
ScanStart(lines, marker) ==
    LET hits == {i \in 1..Len(lines) : Contains(lines[i], marker)}
    IN IF hits # {} THEN (CHOOSE i \in hits : \A j \in hits : i <= j) - 1
       ELSE Len(lines) - 1

\* pandas.read_csv(file, skiprows=start, skipfooter=2, index_col=0,
\* delim_whitespace=True) on the lines P: the first line left after the
\* skipped ones names the columns, the last two lines are dropped, the
\* first field of a row is its label.  Every line the model's files offer
\* as a row has as many fields as the line offered as header.
ReadCsv(P, start) ==
    LET header == Tokens(P[start + 1])
        rows == SubSeq(P, start + 2, Len(P) - SkipFooter)
    IN [columns |-> Tail(header),
        index_name |-> header[1],
        index |-> [r \in 1..Len(rows) |-> Tokens(rows[r])[1]],
        data |-> [r \in 1..Len(rows) |-> Tail(Tokens(rows[r]))]]

\* pandas.to_numeric accepts the cell
IsNumeric(cell) ==
    /\ Len(cell) > 0
    /\ \A i \in 1..Len(cell) : Contains("0123456789", SubSeq(cell, i, i))

RECURSIVE SelectSeq2(_, _, _)
SelectSeq2(seq, keys, drop) ==
    IF Len(seq) = 0 THEN <<>>
    ELSE (IF keys[1] = drop THEN <<>> ELSE <<seq[1]>>)
         \o SelectSeq2(Tail(seq), Tail(keys), drop)

\* data.drop(data.index[0]) without the repair of the column names
DropFirstOnly(data) ==
    [data EXCEPT !.index = SelectSeq2(data.index, data.index, data.index[1]),
                 !.data = SelectSeq2(data.data, data.index, data.index[1])]

\* data.columns = [col + str(col1) for col, col1 in data.iloc[0].items()]
\* data = data.drop(data.index[0])
FixHeader(data) ==
    [data EXCEPT
        !.columns = [j \in 1..Len(data.columns) |->
                        data.columns[j] \o data.data[1][j]],
        !.index = SelectSeq2(data.index, data.index, data.index[1]),
        !.data = SelectSeq2(data.data, data.index, data.index[1])]

AllNumeric(data) ==
    \A r \in 1..Len(data.data) :
        \A j \in 1..Len(data.data[r]) : IsNumeric(data.data[r][j])

ReadProfile(fname) ==
    /\ fname \in DOMAIN files
    /\ LET P == PhysLines(files[fname])
           start == ScanStart(ReadLines(P, ScanHint, 0), "depth")
       IN last' = IF start < 0
                  THEN Done("read_profile", "UnboundLocalError", fname)
                  ELSE Call("read_profile", "ok", fname, start,
                            ReadCsv(P, start))
    /\ UNCHANGED <<config, files>>

ReadTlevel(fname) ==
    /\ fname \in DOMAIN files
    /\ LET P == PhysLines(files[fname])
           start == ScanStart(ReadLines(P, ScanHint, 0), "rTop")
           data == ReadCsv(P, start)
       IN last' =
              IF start < 0
              THEN Done("read_tlevel", "UnboundLocalError", fname)
              ELSE IF Len(data.data) = 0
              THEN Call("read_tlevel", "IndexError", fname, start, NoTable)
              ELSE IF ~AllNumeric(FixHeader(data))
              THEN Call("read_tlevel", "ValueError", fname, start, NoTable)
              ELSE Call("read_tlevel", "ok", fname, start, FixHeader(data))
    /\ UNCHANGED <<config, files>>

NextReader ==
    \/ Simulate
    \/ \E fname \in {"PROFILE.OUT", "T_LEVEL.OUT"} : ReadProfile(fname)
    \/ \E fname \in {"PROFILE.OUT", "T_LEVEL.OUT"} : ReadTlevel(fname)

SpecReader == Init /\ [][NextReader]_vars

(***************************************************************************)
(* Properties of the writers.                                              *)
(***************************************************************************)
SelectorWritten ==
    /\ last.op = "write_selector"
    /\ last.outcome = "ok"

ProfileWritten ==
    /\ last.op \in {"write_profile", "write_files"}
    /\ last.outcome = "ok"

\* C1: NMat equals the number of rows of the material table after any
\* sequence of add_material calls.
C1_NMatEqualsRows ==
    basic_information["NMat"] = Len(material.data)

IsBanner(l) == Len(l) >= 3 /\ SubSeq(l, 1, 3) = "***"

\* C4: every banner line of a written SELECTOR.IN is exactly 72 characters
\* wide, the line terminator not counted.
C4_BannerWidth ==
    SelectorWritten =>
        LET S == PhysLines(files["SELECTOR.IN"])
        IN \A i \in 1..Len(S) : IsBanner(S[i]) => Len(S[i]) = 72

\* the names of a group without the trailing line terminator
Names(g) == SubSeq(g, 1, Len(g) - 1)

GroupsAB ==
    {Names(BasicGroups[i]) : i \in 1..Len(BasicGroups)}
    \cup {Names(CountVars), IterVars}
    \cup {Names(WaterGroups[i]) : i \in 1..Len(WaterGroups)}

GroupsC == {Names(TimeGroups[i]) : i \in 1..Len(TimeGroups)}

\* line i of S lists these names
IsHeader(S, i, names) ==
    LET t == Tokens(S[i])
    IN Len(t) >= Len(names) /\ SubSeq(t, 1, Len(names)) = names

\* the group of these names is in the text S, and the delimiters of its
\* line of names and of its line of values stand in relation R
GroupGaps(S, names, R(_, _)) ==
    \E i \in 1..(Len(S) - 1) :
        IsHeader(S, i, names) /\ R(Gap(S[i]), Gap(S[i + 1]))

Differ(a, b) == a # b

BothOneBlank(a, b) == a = " " /\ b = " "

\* C5 as stated: in every scalar group of a written SELECTOR.IN, block C
\* included, the delimiter between the names differs from the delimiter
\* between the values.
C5_DelimitersDiffer ==
    SelectorWritten =>
        LET S == PhysLines(files["SELECTOR.IN"])
        IN \A g \in GroupsAB \cup GroupsC : GroupGaps(S, g, Differ)

\* C5 amended: the delimiters differ in every scalar group of blocks A and
\* B; in the time-stepping groups of block C the names and the values are
\* both separated by one blank.
C5_DelimitersByBlock ==
    SelectorWritten =>
        LET S == PhysLines(files["SELECTOR.IN"])
        IN /\ \A g \in GroupsAB : GroupGaps(S, g, Differ)
           /\ \A g \in GroupsC : GroupGaps(S, g, BothOneBlank)

C5_Witness ==
    /\ SelectorWritten
    /\ Len(material.data) >= 1
    /\ "SELECTOR.IN" \in DOMAIN files

\* the text of the observation line: every index preceded by exactly three
\* blanks and nothing after the last
ObsLineOk(l) ==
    /\ Tokens(l) = [i \in 1..Len(observations) |-> IntToStr(observations[i])]
    /\ \A b \in TokStarts(l) :
           /\ b > 3
           /\ SubSeq(l, b - 3, b - 1) = "   "
           /\ (b > 4 => SubSeq(l, b - 4, b - 4) # " ")
    /\ SubSeq(l, Len(l), Len(l)) # " "

\* in the text P, whose table ends at line n: the version marker, the
\* placeholder, the row labels, the observation count and the indices
ProfileFrame(P, n) ==
    /\ P[1] = "Pcp_File_Version=4"
    /\ P[2] = "0"
    /\ P[n + 1] = IntToStr(Len(observations))
    /\ Len(P) = n + 1 + (IF Len(observations) = 0 THEN 0 ELSE 1)
    /\ Len(observations) > 0 => ObsLineOk(P[n + 2])
    /\ \A r \in 1..Len(profile.data) :
           Tokens(P[n - Len(profile.data) + r])[1] = profile.index[r]

\* C7 as stated: version marker, placeholder, row-count summary, table,
\* observation count and observation indices each start a line of their own.
C7_OwnLines ==
    ProfileWritten =>
        LET P == PhysLines(files["PROFILE.DAT"])
            T == ToStringLines(profile, TRUE)
        IN /\ Tokens(P[3]) = <<IntToStr(Len(profile.data)), "0", "0">>
           /\ \A i \in 1..Len(T) : P[3 + i] = T[i]
           /\ ProfileFrame(P, 3 + Len(T))

\* C7 amended: the row-count summary does not end its line: the first line
\* of the rendered table follows it on the same line; everything else is as
\* stated.
C7_SummarySharesLine ==
    ProfileWritten =>
        LET P == PhysLines(files["PROFILE.DAT"])
            T == ToStringLines(profile, TRUE)
        IN /\ P[3] = IntToStr(Len(profile.data)) \o " 0 0 " \o T[1]
           /\ \A i \in 2..Len(T) : P[2 + i] = T[i]
           /\ ProfileFrame(P, 2 + Len(T))

C7_Witness ==
    /\ ProfileWritten
    /\ Len(profile.data) = 2
    /\ Len(observations) = 2

\* C8: a second write_selector or write_profile right after a first leaves
\* the files as the first call left them, and no write changes the
\* configuration, the tables or the observations.
C8_Rewrite ==
    [][last'.op \in {"write_selector", "write_profile"} =>
          /\ config' = config
          /\ last'.again => files' = files]_vars

C8_Witness ==
    /\ last.op \in {"write_selector", "write_profile"}
    /\ last.again
    /\ last.fname \in DOMAIN files


(***************************************************************************)
(* Properties of write_selector under requested options and time settings. *)
(***************************************************************************)
\* C2: with the drain or an unsupported flag requested, write_selector and
\* write_files end with the not-implemented error and leave every file of
\* the workspace as it was.
C2_FailsNotImplemented ==
    [][(/\ last'.op \in {"write_selector", "write_files"}
        /\ (drain \/ Requested # {}))
       => (/\ last'.outcome = "NotImplementedError"
           /\ files' = files)]_vars

\* a <= b for two exponents held as fractions
ExpLeq(a, b) == a.num * b.den <= b.num * a.den

\* the line of print times of a written SELECTOR.IN
TimesLine(S) ==
    LET i == CHOOSE j \in 1..Len(S) :
                 S[j] = "TPrint(1),TPrint(2),...,TPrint(MPL)"
    IN S[i + 1]

\* C9: write_selector writes exactly MPL print times 10**y whose exponents
\* y are evenly spaced from TPrint(1) to log10(TPrint(MPL)); for the bounds
\* 0 and 1 and MPL = 4 they do not decrease and the last one is 1.0.
C9_PrintTimes ==
    SelectorWritten =>
        LET S == PhysLines(files["SELECTOR.IN"])
            written == Tokens(TimesLine(S))
            mpl == time_information["MPL"]
            t0 == time_information["TPrint(1)"]
            tMax == time_information["TPrint(MPL)"]
            y == PrintTimes
        IN /\ Len(written) = mpl
           /\ written = [k \in 1..mpl |-> TimeStr(y[k])]
           /\ mpl >= 1 => y[1].num = t0 * y[1].den
           /\ mpl >= 2 => y[mpl].num = Log10(tMax) * y[mpl].den
           /\ \A k \in 2..mpl :
                  /\ y[k].den = y[1].den
                  /\ y[k].num - y[k - 1].num = y[2].num - y[1].num
           /\ (t0 = 0 /\ tMax = 1 /\ mpl = 4) =>
                  /\ \A k \in 2..mpl : ExpLeq(y[k - 1], y[k])
                  /\ written[mpl] = "1.0"

C9_Witness ==
    /\ SelectorWritten
    /\ time_information["MPL"] = 4
    /\ time_information["TPrint(1)"] = 0
    /\ time_information["TPrint(MPL)"] = 1
    /\ Tokens(TimesLine(PhysLines(files["SELECTOR.IN"])))
           = <<"1.0", "1.0", "1.0", "1.0">>


(***************************************************************************)
(* Properties of the readers.                                              *)
(***************************************************************************)
Reads == {"read_profile", "read_tlevel"}

Marker(op) == IF op = "read_profile" THEN "depth" ELSE "rTop"

\* C3: a reader whose scan window holds no line with the marker ends with
\* the marker-not-found condition and parses no table.
C3_MarkerNotFound ==
    (last.op \in Reads /\ last.fname \in DOMAIN files) =>
        LET P == PhysLines(files[last.fname])
            window == ReadLines(P, ScanHint, 0)
        IN (\A i \in 1..Len(window) : ~Contains(window[i], Marker(last.op)))
           => (last.outcome = "MarkerNotFound" /\ last.table = NoTable)

\* C10: when the marker is on one of the first 1000 lines of the file, the
\* reader records the offset of the first such line and parses from it,
\* however many characters come before that line.
C10_FirstMarkerLine ==
    (last.op \in Reads /\ last.fname \in DOMAIN files) =>
        LET P == PhysLines(files[last.fname])
            hits == {i \in 1..Len(P) :
                        i <= 1000 /\ Contains(P[i], Marker(last.op))}
        IN hits # {} =>
               last.start = (CHOOSE i \in hits : \A j \in hits : i <= j) - 1

\* at the recorded offset s the lines P hold a line of names with the
\* marker, a line of units, numeric data rows and the two footer lines
TwoRowTable(P, s) ==
    /\ s >= 0
    /\ Len(P) >= s + 4
    /\ Contains(P[s + 1], "rTop")
    /\ Len(Tokens(P[s + 2])) = Len(Tokens(P[s + 1]))
    /\ \A j \in 1..Len(Tokens(P[s + 2])) : ~IsNumeric(Tokens(P[s + 2])[j])
    /\ \A r \in (s + 3)..(Len(P) - 2) :
           /\ Len(Tokens(P[r])) = Len(Tokens(P[s + 1]))
           /\ \A j \in 1..Len(Tokens(P[r])) : IsNumeric(Tokens(P[r])[j])
    /\ SubSeq(P, Len(P) - 1, Len(P)) = Footer

\* C6 as stated: read_tlevel yields one column per header token, named by
\* the token of the names row joined to the token of the units row, and
\* (total lines - header offset - 2) data rows.
C6_ColumnPerToken ==
    (last.op = "read_tlevel" /\ last.fname \in DOMAIN files) =>
        LET P == PhysLines(files[last.fname])
            s == last.start
            names == Tokens(P[s + 1])
            units == Tokens(P[s + 2])
        IN TwoRowTable(P, s) =>
               /\ last.outcome = "ok"
               /\ last.table.columns =
                      [j \in 1..Len(names) |-> names[j] \o units[j]]
               /\ Len(last.table.data) = Len(P) - s - 2

\* C6 amended: the first header token names the row key and is no column;
\* read_tlevel yields one column per further header token, named by the
\* token of the names row joined to the token of the units row, and
\* (total lines - header offset - 4) data rows, keyed by their first field:
\* the names row, the units row and the two footer lines are no data rows.
C6_KeyedColumns ==
    (last.op = "read_tlevel" /\ last.fname \in DOMAIN files) =>
        LET P == PhysLines(files[last.fname])
            s == last.start
            names == Tokens(P[s + 1])
            units == Tokens(P[s + 2])
        IN TwoRowTable(P, s) =>
               /\ last.outcome = "ok"
               /\ last.table.index_name = names[1]
               /\ last.table.columns =
                      [j \in 1..(Len(names) - 1) |->
                          names[j + 1] \o units[j + 1]]
               /\ Len(last.table.data) = Len(P) - s - 4
               /\ \A r \in 1..Len(last.table.data) :
                      /\ last.table.index[r] = Tokens(P[s + 2 + r])[1]
                      /\ last.table.data[r] = Tail(Tokens(P[s + 2 + r]))

C6_Witness ==
    /\ last.op = "read_tlevel"
    /\ last.outcome = "ok"
    /\ last.start > 0
    /\ last.table.index_name = "Time"
    /\ last.table.columns = <<"rTop[L/T]">>
    /\ last.table.index = <<"1", "2">>
    /\ last.table.data = << <<"5">>, <<"6">> >>

====
